---------------------------- MODULE Spec2Model ----------------------------
(***************************************************************************)
(* A model of fx-store-poc: the symbol registry, the CSV ingest pipeline,  *)
(* the background compressor, the compressed day-block and the range       *)
(* query of src/src/store.rs, src/src/block.rs and src/src/types.rs.       *)
(*                                                                         *)
(* Time.  The code counts time in nanoseconds (u64).  The model counts it  *)
(* in ticks, TicksPerSec ticks to the second, where the code has           *)
(* 1_000_000_000: every other constant of the time arithmetic (86400, 60,  *)
(* 1440) is the code's.                                                    *)
(***************************************************************************)
EXTENDS Integers, Sequences, FiniteSets, TLC

(***************************************************************************)
(* Bounds of the model.                                                    *)
(***************************************************************************)
TicksPerSec == 2
MaxRecords == 2
MaxLines == 2
MaxImports == 2
MaxInstalls == 3
NumThreads == 2
MaxCalls == 2
MaxFilterLen == 9
MaxPrice == 3
MaxReceives == MaxImports * MaxLines

(***************************************************************************)
(* Program constants.                                                      *)
(***************************************************************************)
BLOCK_SIZE == 1440
SecsPerDay == 86400
SecsPerMin == 60
OHLCV_SIZE == 40
LenPrefix == 8
ZSTD_LEVEL == 3
QUEUE_CAPACITY == 1000
LANES == 8

\* Option<T>: None, or Some(x) holding x.
None == << >>
Some(x) == <<x>>
Unwrap(o) == o[1]

(***************************************************************************)
(* types.rs: the bar.  _pad is always zero and is left out of the record;  *)
(* its ten bytes are counted in SerializedBarSize.                         *)
(***************************************************************************)
ZeroBar ==
  [ts |-> 0, open |-> 0, high |-> 0, low |-> 0, close |-> 0,
   volume |-> 0, symbol_id |-> 0]

MkBar(ts, close, sym) ==
  [ts |-> ts, open |-> close, high |-> close, low |-> close, close |-> close,
   volume |-> 1, symbol_id |-> sym]

\* bincode writes each field at its fixed width: u64, five u32, u16, [u8; 10].
SerializedBarSize == 8 + 4 + 4 + 4 + 4 + 4 + 2 + 10

(***************************************************************************)
(* block.rs: CompressedBlock.                                              *)
(***************************************************************************)
\* The minute taken from the raw ts, without the division that brings it
\* to seconds.
MinuteOfDayUnscaled(ts) == (ts % SecsPerDay) \div SecsPerMin

MinuteOfDay(ts) == ((ts \div TicksPerSec) % SecsPerDay) \div SecsPerMin

EmptyArray == [m \in 0 .. BLOCK_SIZE - 1 |-> ZeroBar]

RECURSIVE FillSlots(_, _, _)
FillSlots(block, records, i) ==
  IF i > Len(records) THEN block
  ELSE FillSlots([block EXCEPT ![MinuteOfDay(records[i].ts)] = records[i]],
                 records, i + 1)

\* block.to_vec()
ToVec(block) == [i \in 1 .. BLOCK_SIZE |-> block[i - 1]]

\* bincode::serialize of a Vec: a u64 length, then the elements.
Serialize(vec) ==
  [len |-> Len(vec), items |-> vec,
   nbytes |-> LenPrefix + Len(vec) * SerializedBarSize]

\* zstd::bulk::compress: a frame that decodes to the bytes it was given.
Compress(bytes, level) == [content |-> bytes, level |-> level]

\* zstd::bulk::decompress(data, capacity): fails when the content is larger
\* than the capacity.
ZstdDecompress(data, capacity) ==
  IF data.content.nbytes > capacity
    THEN [ok |-> FALSE, bytes |-> None]
    ELSE [ok |-> TRUE, bytes |-> Some(data.content)]

\* bincode::deserialize::<Vec<OHLCV>>
Deserialize(bytes) == bytes.items

\* CompressedBlock::new.  cached names the cell (the Arc<RwLock<Option<..>>>)
\* that the block and its clones share; the caller adds the empty cell to
\* the heap.
NewBlock(date, symbol_id, records, cell) ==
  LET block == FillSlots(EmptyArray, records, 1)
      serialized == Serialize(ToVec(block))
      compressed == Compress(serialized, ZSTD_LEVEL)
  IN  [date |-> date, symbol_id |-> symbol_id, data |-> compressed,
       cached |-> cell]

DecompressCapacity == BLOCK_SIZE * OHLCV_SIZE

\* The array decompress() builds from the decoded vector.
CopySlots(records) ==
  [m \in 0 .. BLOCK_SIZE - 1 |->
     IF m + 1 <= Len(records) THEN records[m + 1] ELSE ZeroBar]

\* Lines 46-53 of decompress(): decode the payload into an array, or panic
\* in an unwrap().
DecodeBlock(b) ==
  LET r == ZstdDecompress(b.data, DecompressCapacity)
  IN  IF ~r.ok THEN [panic |-> TRUE, data |-> None]
      ELSE [panic |-> FALSE,
            data |-> Some(CopySlots(Deserialize(Unwrap(r.bytes))))]

\* decompress() by one thread: [panic, data, heap', wrote].  A cached array
\* is returned as is; otherwise a failed unwrap() panics and leaves the cache
\* empty.  wrote tells whether the call wrote the cache (line 56).
DecompressBlock(b, cells) ==
  IF cells[b.cached] # None
    THEN [panic |-> FALSE, data |-> cells[b.cached], heap |-> cells,
          wrote |-> FALSE]
    ELSE LET r == DecodeBlock(b)
         IN  IF r.panic
               THEN [panic |-> TRUE, data |-> None, heap |-> cells,
                     wrote |-> FALSE]
               ELSE [panic |-> FALSE, data |-> r.data,
                     heap |-> [cells EXCEPT ![b.cached] = r.data],
                     wrote |-> TRUE]

\* The write counts after a decompress() call r on block b.
CountWrite(w, b, r) ==
  IF r.wrote THEN [w EXCEPT ![b.cached] = @ + 1] ELSE w

(***************************************************************************)
(* store.rs: the symbol registry.  A name is the sequence of its           *)
(* characters; the registry maps the registered names to their Symbol.     *)
(***************************************************************************)
U16 == 65536

EmptyMap == [x \in {} |-> None]

MapInsert(map, k, v) ==
  [x \in (DOMAIN map) \cup {k} |-> IF x = k THEN v ELSE map[x]]

SlashAt(name) == {i \in 1 .. Len(name) : name[i] = "/"}

\* symbol.split('/').collect(): the pieces between the slashes.
RECURSIVE SplitSlash(_)
SplitSlash(name) ==
  IF SlashAt(name) = {} THEN <<name>>
  ELSE LET i == CHOOSE k \in SlashAt(name) : \A j \in SlashAt(name) : k <= j
       IN  <<SubSeq(name, 1, i - 1)>>
             \o SplitSlash(SubSeq(name, i + 1, Len(name)))

\* Lines 54-66: the Symbol for a new name, or a panic when symbol[..3]
\* slices past the end of the name.
MakeSymbol(id, name) ==
  LET parts == SplitSlash(name)
  IN  IF Len(parts) = 2
        THEN [panic |-> FALSE,
              sym |-> Some([id |-> id, name |-> name, base |-> parts[1],
                            quote |-> parts[2]])]
      ELSE IF Len(name) < 3
        THEN [panic |-> TRUE, sym |-> None]
      ELSE [panic |-> FALSE,
            sym |-> Some([id |-> id, name |-> name,
                          base |-> SubSeq(name, 1, 3),
                          quote |-> SubSeq(name, 4, Len(name))])]

\* Line 53: self.symbols.len() as u16
NextSymbolId(symbols) == Cardinality(DOMAIN symbols) % U16

\* get_symbols(): the registered names (order unspecified).
GetSymbols(symbols) == DOMAIN symbols

\* get_or_create_symbol run by one thread with no other interner active:
\* [panic, id, symbols'].
GetOrCreateSymbol(symbols, name) ==
  IF name \in DOMAIN symbols
    THEN [panic |-> FALSE, id |-> symbols[name].id, symbols |-> symbols]
    ELSE LET m == MakeSymbol(NextSymbolId(symbols), name)
         IN  IF m.panic
               THEN [panic |-> TRUE, id |-> 0, symbols |-> symbols]
               ELSE [panic |-> FALSE, id |-> Unwrap(m.sym).id,
                     symbols |-> MapInsert(symbols, name, Unwrap(m.sym))]

(***************************************************************************)
(* Calendar arithmetic of chrono (proleptic Gregorian, UTC), as used by    *)
(* ts_to_date (store.rs) and OHLCV::from_fx (types.rs).                    *)
(***************************************************************************)
IsLeap(y) == (y % 4 = 0 /\ y % 100 # 0) \/ y % 400 = 0

DaysInMonth(y, m) ==
  IF m = 2 THEN (IF IsLeap(y) THEN 29 ELSE 28)
  ELSE IF m \in {4, 6, 9, 11} THEN 30 ELSE 31

DaysFromCivil(y, m, d) ==
  LET yy == IF m <= 2 THEN y - 1 ELSE y
      era == yy \div 400
      yoe == yy - era * 400
      mp == (m + 9) % 12
      doy == (153 * mp + 2) \div 5 + d - 1
      doe == yoe * 365 + yoe \div 4 - yoe \div 100 + doy
  IN  era * 146097 + doe - 719468

\* The day number (days since 1970-01-01) as YYYYMMDD.
CivilFromDays(days) ==
  LET z == days + 719468
      era == z \div 146097
      doe == z - era * 146097
      yoe == (doe - doe \div 1460 + doe \div 36524 - doe \div 146096) \div 365
      doy == doe - (365 * yoe + yoe \div 4 - yoe \div 100)
      mp == (5 * doy + 2) \div 153
      d == doy - (153 * mp + 2) \div 5 + 1
      m == IF mp < 10 THEN mp + 3 ELSE mp - 9
      y == yoe + era * 400 + (IF m <= 2 THEN 1 ELSE 0)
  IN  y * 10000 + m * 100 + d

\* ts_to_date: the UTC day of ts as YYYYMMDD.
ts_to_date(ts) == CivilFromDays((ts \div TicksPerSec) \div SecsPerDay)

\* NaiveDateTime::parse_from_str(dt, "%Y%m%d %H%M%S") on the digits ymd and
\* hms: the timestamp, or None when they name no date or time of day.  %S
\* takes 00 to 60: chrono reads hh:mm:60 as the leap second, second 59 with
\* 1_000_000_000 nanoseconds, and timestamp_nanos_opt() adds those
\* nanoseconds to the seconds, which is the instant sixty seconds into the
\* minute.
ParseDateTime(ymd, hms) ==
  LET y == ymd \div 10000
      m == (ymd \div 100) % 100
      d == ymd % 100
      h == hms \div 10000
      mi == (hms \div 100) % 100
      sec == hms % 100
  IN  IF /\ m \in 1 .. 12
         /\ d >= 1
         /\ d <= DaysInMonth(y, m)
         /\ h < 24
         /\ mi < 60
         /\ sec <= 60
        THEN Some((DaysFromCivil(y, m, d) * SecsPerDay + h * 3600 + mi * 60
                     + sec) * TicksPerSec)
        ELSE None

(***************************************************************************)
(* A feed line is described by what the code reads of it:                  *)
(*   len     its length in characters;                                     *)
(*   key     line[0..8].parse::<u32>(): Some(n), or None when the first    *)
(*           eight characters are not a number;                            *)
(*   nparts  the number of fields the separator splits it into;            *)
(*   dt      the datetime field: Some([ymd, hms]) when it has the shape    *)
(*           "YYYYMMDD HHMMSS", None otherwise;                            *)
(*   px      the price fields: Some of the four fixed-point prices (the    *)
(*           decimal times 100000, truncated) when all four parse as f64,  *)
(*           None otherwise;                                               *)
(*   vol     the volume field: Some(n) when it parses as u32.              *)
(***************************************************************************)
\* OHLCV::from_fx: the bar, or a panic when unwrap() meets a datetime that
\* does not parse.
from_fx(dt, px, v, sym) ==
  LET ts == IF dt = None THEN None
            ELSE ParseDateTime(Unwrap(dt).ymd, Unwrap(dt).hms)
  IN  IF ts = None THEN [panic |-> TRUE, bar |-> None]
      ELSE [panic |-> FALSE,
            bar |-> Some([ts |-> Unwrap(ts), open |-> px.open,
                          high |-> px.high, low |-> px.low,
                          close |-> px.close, volume |-> v,
                          symbol_id |-> sym])]

\* parse_line: [panic, bar]; bar is None for a line that is rejected (Err).
parse_line(line, symbol_id) ==
  IF line.nparts < 6 THEN [panic |-> FALSE, bar |-> None]
  ELSE IF line.px = None THEN [panic |-> FALSE, bar |-> None]
  ELSE from_fx(line.dt, Unwrap(line.px),
               IF line.vol = None THEN 0 ELSE Unwrap(line.vol), symbol_id)

\* Lines 85-89 of import_csv: the loop over the lines after the header.
\* status is "ok", "err" (the ? on the day key returned) or "panic" (the
\* slice line[0..8] ran past the end of the line).
RECURSIVE GroupLines(_, _, _)
GroupLines(lines, i, groups) ==
  IF i > Len(lines) THEN [status |-> "ok", groups |-> groups]
  ELSE IF lines[i].len < 8 THEN [status |-> "panic", groups |-> groups]
  ELSE IF lines[i].key = None THEN [status |-> "err", groups |-> groups]
  ELSE LET date == Unwrap(lines[i].key)
           old == IF date \in DOMAIN groups THEN groups[date] ELSE << >>
       IN  GroupLines(lines, i + 1,
                      MapInsert(groups, date, Append(old, lines[i])))

\* Lines 93-96: the records of one day's lines, in line order, without the
\* rejected lines; a panic in any parse_line unwinds the whole call.
ParseGroup(lines, sym_id) ==
  LET res == [i \in 1 .. Len(lines) |-> parse_line(lines[i], sym_id)]
      good == SelectSeq(res, LAMBDA r : r.bar # None)
  IN  [panic |-> \E i \in 1 .. Len(lines) : res[i].panic,
       records |-> [i \in 1 .. Len(good) |-> Unwrap(good[i].bar)]]

(***************************************************************************)
(* store.rs: query_range.                                                  *)
(***************************************************************************)
\* Every ordering of a finite set as a sequence.
Perms(S) ==
  {f \in [1 .. Cardinality(S) -> S] :
     \A i, j \in 1 .. Cardinality(S) : f[i] = f[j] => i = j}

\* Line 135: the filter of the iterator.
InRange(rec, start_ts, end_ts) == rec.ts >= start_ts /\ rec.ts <= end_ts

\* Lines 133-135: the bars one decompressed block contributes.
FilterBlock(data, start_ts, end_ts) ==
  SelectSeq(ToVec(data), LAMBDA rec : InRange(rec, start_ts, end_ts))

\* Lines 111-129: the vectors `blocks` that query_range may collect: none
\* for an unknown symbol or a symbol without blocks, else the blocks of the
\* days in range, cloned, in the order the map's iterator gives them (any).
Snapshots(syms, index, name, start_ts, end_ts) ==
  IF name \notin DOMAIN syms THEN {<< >>}
  ELSE IF syms[name].id \notin DOMAIN index THEN {<< >>}
  ELSE LET symbol_blocks == index[syms[name].id]
           start_date == ts_to_date(start_ts)
           end_date == ts_to_date(end_ts)
       IN  Perms({symbol_blocks[d] :
                    d \in {k \in DOMAIN symbol_blocks :
                             k >= start_date /\ k <= end_date}})

(***************************************************************************)
(* State.                                                                  *)
(***************************************************************************)
VARIABLES
  symbols,  \* FxStore.symbols: name -> Symbol
  ipc,      \* per interning thread: its position in get_or_create_symbol
  iname,    \* per interning thread: the name it interns
  iid,      \* per interning thread: the id it read from len()
  returned, \* every <<name, id>> a get_or_create_symbol call has returned
  imp,      \* the import_csv call in progress, or the last one made
  nimports, \* number of import_csv calls made
  queue,    \* the compressor channel: items sent and not yet received
  txAlive,  \* the FxStore (and so the channel's Sender) is not yet dropped
  wpc,      \* compress_worker: "running" or "exited"
  lastItem, \* the item compress_worker received last
  submitted,\* every item sent into the channel, in the order sent
  received, \* every item compress_worker has received, in the order received
  ingested, \* every bar sent to the compressor, with its symbol name
  blocks,   \* FxStore.blocks: symbol_id -> date -> CompressedBlock
  heap,     \* the cache cells of the blocks: None or Some(array)
  writes,   \* per cache cell: how many times decompress() has written it
  q,        \* the iterator of the query_range call made last
  binput,   \* block check: the (date, symbol_id, records) given to new()
  blk,      \* block check: the CompressedBlock, None before new()
  bres,     \* block check: outcome of decompress(), None before the call
  dpc,      \* per decompressing thread: its position in decompress()
  dout,     \* per decompressing thread: what its decompress() calls returned
  finput,   \* filter check: the (records, min_price, max_price) given
  fres      \* filter check: the vector filter_by_price returned, or None

regVars == <<symbols, ipc, iname, iid, returned>>
pipeVars ==
  <<imp, nimports, queue, txAlive, wpc, lastItem, submitted, received,
    ingested>>
indexVars == <<blocks, heap, writes>>
cacheVars == <<dpc, dout>>
filterVars == <<finput, fres>>
blockVars == <<binput, blk, bres, dpc, dout, finput, fres>>
vars ==
  <<symbols, ipc, iname, iid, returned, imp, nimports, queue, txAlive, wpc,
    lastItem, submitted, received, ingested, blocks, heap, writes, q, binput,
    blk, bres, dpc, dout, finput, fres>>

(***************************************************************************)
(* Inputs.                                                                 *)
(***************************************************************************)
TsAt(day, minute) == (day * SecsPerDay + minute * SecsPerMin) * TicksPerSec

SeqsUpTo(S, n) == UNION {[1 .. k -> S] : k \in 0 .. n}

Threads == 1 .. NumThreads

EURUSD == <<"E", "U", "R", "U", "S", "D">>
XAUUSD == <<"X", "A", "U", "U", "S", "D">>
EUR_USD == <<"E", "U", "R", "/", "U", "S", "D">>
EU == <<"E", "U">>
EmptyName == << >>
SymbolNames == {EURUSD, XAUUSD, EUR_USD, EU, EmptyName}

BlockBars ==
  {MkBar(TsAt(0, 0), 1, 0), MkBar(TsAt(0, 1), 1, 0), MkBar(TsAt(0, 1), 2, 0),
   MkBar(TsAt(0, 1) + 1, 3, 0), MkBar(TsAt(0, 1439), 1, 0),
   MkBar(TsAt(1, 1), 4, 0), MkBar(TsAt(0, 0) + 1, 5, 0), ZeroBar}

\* Feed lines: a well-formed line, and one malformed line of each kind.
Prices(c) == [open |-> c, high |-> c, low |-> c, close |-> c]

GoodLine(ymd, hms, c) ==
  [len |-> 46, key |-> Some(ymd), nparts |-> 6,
   dt |-> Some([ymd |-> ymd, hms |-> hms]), px |-> Some(Prices(c)),
   vol |-> Some(1)]

HeaderLine ==
  [len |-> 36, key |-> None, nparts |-> 6, dt |-> None, px |-> None,
   vol |-> None]

\* "2024"
ShortLine ==
  [len |-> 4, key |-> None, nparts |-> 1, dt |-> None, px |-> None,
   vol |-> None]

\* "1970-01-01 000100,1,1,1,1,1"
BadKeyLine ==
  [len |-> 27, key |-> None, nparts |-> 6, dt |-> None,
   px |-> Some(Prices(1)), vol |-> Some(1)]

\* "19700101 2500,1,1,1,1,1"
BadDateTimeLine ==
  [len |-> 23, key |-> Some(19700101), nparts |-> 6, dt |-> None,
   px |-> Some(Prices(1)), vol |-> Some(1)]

\* "19700101 000200,x,1,1,1,1"
BadPriceLine ==
  [len |-> 25, key |-> Some(19700101), nparts |-> 6,
   dt |-> Some([ymd |-> 19700101, hms |-> 200]), px |-> None,
   vol |-> Some(1)]

\* "19700101 235960,4,4,4,4,1"
LeapSecondLine == GoodLine(19700101, 235960, 4)

FeedLines ==
  {GoodLine(19700101, 100, 1), GoodLine(19700101, 100, 2),
   GoodLine(19700102, 0, 3), LeapSecondLine, ShortLine, BadKeyLine,
   BadDateTimeLine, BadPriceLine}

\* The file at a path: None when it cannot be opened, else its lines, the
\* header first.
Files ==
  {None}
    \cup {Some(<<HeaderLine>> \o ls) : ls \in SeqsUpTo(FeedLines, MaxLines)}

IngestNames == {EURUSD, XAUUSD}

(***************************************************************************)
(* The state after FxStore::new().                                         *)
(***************************************************************************)
IdleImport ==
  [pc |-> "idle", name |-> << >>, opened |-> FALSE, lines |-> << >>,
   sym_id |-> 0, groups |-> EmptyMap, sent |-> << >>, result |-> "none"]

NoInput == [date |-> 0, symbol_id |-> 0, records |-> << >>]

InitStore ==
  /\ symbols = EmptyMap
  /\ ipc = [t \in Threads |-> "idle"]
  /\ iname = [t \in Threads |-> << >>]
  /\ iid = [t \in Threads |-> 0]
  /\ returned = {}
  /\ imp = IdleImport
  /\ nimports = 0
  /\ queue = << >>
  /\ txAlive = TRUE
  /\ wpc = "running"
  /\ lastItem = None
  /\ submitted = << >>
  /\ received = << >>
  /\ ingested = << >>
  /\ blocks = EmptyMap
  /\ heap = << >>
  /\ writes = << >>
  /\ q = None

\* No decompressing thread is inside decompress(); no filter call is made.
NoFilterInput == [records |-> << >>, min_price |-> 0, max_price |-> 0]

IdleChecks ==
  /\ dpc = [t \in Threads |-> "idle"]
  /\ dout = [t \in Threads |-> << >>]
  /\ finput = NoFilterInput
  /\ fres = None

(***************************************************************************)
(* SpecBlock: CompressedBlock::new and decompress() on every input.        *)
(***************************************************************************)
InitBlock ==
  /\ InitStore
  /\ binput \in [date : {19700101}, symbol_id : {0},
                 records : SeqsUpTo(BlockBars, MaxRecords)]
  /\ blk = None
  /\ bres = None
  /\ IdleChecks

BlockNew ==
  /\ blk = None
  /\ blk' = Some(NewBlock(binput.date, binput.symbol_id, binput.records,
                          Len(heap) + 1))
  /\ heap' = Append(heap, None)
  /\ writes' = Append(writes, 0)
  /\ UNCHANGED <<binput, bres, blocks, q, cacheVars, filterVars>>
  /\ UNCHANGED regVars
  /\ UNCHANGED pipeVars

BlockDecompress ==
  /\ blk # None
  /\ bres = None
  /\ LET r == DecompressBlock(Unwrap(blk), heap)
     IN  /\ bres' = Some([panic |-> r.panic, data |-> r.data])
         /\ heap' = r.heap
         /\ writes' = CountWrite(writes, Unwrap(blk), r)
  /\ UNCHANGED <<binput, blk, blocks, q, cacheVars, filterVars>>
  /\ UNCHANGED regVars
  /\ UNCHANGED pipeVars

NextBlock == BlockNew \/ BlockDecompress

SpecBlock == InitBlock /\ [][NextBlock]_vars

\* The last input record whose minute-of-day is m, or the zeroed bar.
LastAtMinute(records, m) ==
  LET idx == {i \in 1 .. Len(records) : MinuteOfDay(records[i].ts) = m}
  IN  IF idx = {} THEN ZeroBar
      ELSE records[CHOOSE i \in idx : \A j \in idx : j <= i]

\* C3: decompress() on the block that new() returned succeeds and returns
\* the 1,440-slot array whose slot m holds the last input record of minute
\* m, every other slot being the zeroed bar.
C3_RoundTrip ==
  bres # None =>
    /\ ~Unwrap(bres).panic
    /\ Unwrap(bres).data = Some([m \in 0 .. BLOCK_SIZE - 1 |->
                                   LastAtMinute(binput.records, m)])

(***************************************************************************)
(* SpecSymbols: threads calling get_or_create_symbol concurrently.  Each   *)
(* DashMap operation (get, len, insert) is one atomic step; nothing holds  *)
(* a guard from one to the next.                                           *)
(***************************************************************************)
InitSymbols ==
  /\ InitStore
  /\ binput = NoInput
  /\ blk = None
  /\ bres = None
  /\ IdleChecks

\* A thread enters get_or_create_symbol(n).
SymCall(t, n) ==
  /\ ipc[t] = "idle"
  /\ ipc' = [ipc EXCEPT ![t] = "get"]
  /\ iname' = [iname EXCEPT ![t] = n]
  /\ UNCHANGED <<symbols, iid, returned, q>>
  /\ UNCHANGED <<pipeVars, indexVars, blockVars>>

\* Lines 49-51: self.symbols.get(symbol), returning the id on a hit.
SymGet(t) ==
  /\ ipc[t] = "get"
  /\ IF iname[t] \in DOMAIN symbols
       THEN /\ returned' = returned \cup {<<iname[t], symbols[iname[t]].id>>}
            /\ ipc' = [ipc EXCEPT ![t] = "idle"]
       ELSE /\ ipc' = [ipc EXCEPT ![t] = "len"]
            /\ UNCHANGED returned
  /\ UNCHANGED <<symbols, iname, iid, q>>
  /\ UNCHANGED <<pipeVars, indexVars, blockVars>>

\* Line 53: let id = self.symbols.len() as u16.
SymLen(t) ==
  /\ ipc[t] = "len"
  /\ iid' = [iid EXCEPT ![t] = NextSymbolId(symbols)]
  /\ ipc' = [ipc EXCEPT ![t] = "insert"]
  /\ UNCHANGED <<symbols, iname, returned, q>>
  /\ UNCHANGED <<pipeVars, indexVars, blockVars>>

\* Lines 54-69: build the Symbol, insert it (replacing any entry another
\* thread made for the name meanwhile) and return the id.
SymInsert(t) ==
  /\ ipc[t] = "insert"
  /\ LET m == MakeSymbol(iid[t], iname[t])
     IN  IF m.panic
           THEN /\ ipc' = [ipc EXCEPT ![t] = "panicked"]
                /\ UNCHANGED <<symbols, returned>>
           ELSE /\ symbols' = MapInsert(symbols, iname[t], Unwrap(m.sym))
                /\ returned' = returned \cup {<<iname[t], iid[t]>>}
                /\ ipc' = [ipc EXCEPT ![t] = "idle"]
  /\ UNCHANGED <<iname, iid, q>>
  /\ UNCHANGED <<pipeVars, indexVars, blockVars>>

NextSymbols ==
  \E t \in Threads :
    \/ \E n \in SymbolNames : SymCall(t, n)
    \/ SymGet(t)
    \/ SymLen(t)
    \/ SymInsert(t)

SpecSymbols == InitSymbols /\ [][NextSymbols]_vars

\* C4: all calls of get_or_create_symbol(n) return the same id, and
\* get_symbols() contains n once a call for n has returned.
C4_StableId ==
  /\ \A r1, r2 \in returned : r1[1] = r2[1] => r1[2] = r2[2]
  /\ \A r \in returned : r[1] \in GetSymbols(symbols)

\* C5: the ids of the k registered symbols are exactly 0 .. k-1, no two
\* names sharing an id.
C5_DenseIds ==
  /\ {symbols[n].id : n \in DOMAIN symbols}
       = 0 .. Cardinality(DOMAIN symbols) - 1
  /\ \A n1, n2 \in DOMAIN symbols :
       symbols[n1].id = symbols[n2].id => n1 = n2

(***************************************************************************)
(* Spec: the store as the program runs it.  One caller at a time imports   *)
(* feeds, the compressor thread drains the channel, queries are made, and  *)
(* in the end the store is dropped.                                        *)
(***************************************************************************)
Init ==
  /\ InitStore
  /\ binput = NoInput
  /\ blk = None
  /\ bres = None
  /\ IdleChecks

\* import_csv, lines 78-89: intern the symbol, open the file, skip the
\* header and group the lines by day key.
ImportStart(name, file) ==
  /\ txAlive
  /\ imp.pc # "send"
  /\ nimports < MaxImports
  /\ nimports' = nimports + 1
  /\ LET r == GetOrCreateSymbol(symbols, name)
         lines == IF file = None \/ Unwrap(file) = << >> THEN << >>
                  ELSE Tail(Unwrap(file))
         g == GroupLines(lines, 1, EmptyMap)
         call == [IdleImport EXCEPT !.name = name, !.sym_id = r.id,
                                    !.opened = file # None, !.lines = lines]
     IN  /\ symbols' = r.symbols
         /\ imp' = IF r.panic THEN [call EXCEPT !.pc = "panicked"]
                   ELSE IF file = None
                     THEN [call EXCEPT !.pc = "returned", !.result = "Err"]
                   ELSE IF g.status = "panic"
                     THEN [call EXCEPT !.pc = "panicked"]
                   ELSE IF g.status = "err"
                     THEN [call EXCEPT !.pc = "returned", !.result = "Err"]
                   ELSE [call EXCEPT !.pc = "send", !.groups = g.groups]
  /\ UNCHANGED <<ipc, iname, iid, returned, queue, txAlive, wpc, lastItem,
                 submitted, received, ingested, q>>
  /\ UNCHANGED <<indexVars, blockVars>>

\* A send that gives up on a full channel, as try_send would, and drops the
\* item.
SendDropping(ch, item) ==
  [ready |-> TRUE,
   queue |-> IF Len(ch) < QUEUE_CAPACITY THEN Append(ch, item) ELSE ch]

\* Line 98: Sender::send on the channel of bounded(1000), the receiver being
\* alive.  The call waits while the channel is full: ready tells whether it
\* can complete now, queue is the channel once it has.
Send(ch, item) ==
  [ready |-> Len(ch) < QUEUE_CAPACITY,
   queue |-> IF Len(ch) < QUEUE_CAPACITY THEN Append(ch, item) ELSE ch]

\* Lines 92-99, one day-bucket (in the map's iteration order): parse its
\* lines and send the item.  send() waits while the channel is full, and
\* its error (the receiver is gone) is discarded by .ok().
ImportSend(date) ==
  /\ imp.pc = "send"
  /\ date \in DOMAIN imp.groups
  /\ LET p == ParseGroup(imp.groups[date], imp.sym_id)
         item == [date |-> date, symbol_id |-> imp.sym_id,
                  records |-> p.records]
         rest == [d \in (DOMAIN imp.groups) \ {date} |-> imp.groups[d]]
     IN  IF p.panic
           THEN /\ imp' = [imp EXCEPT !.pc = "panicked"]
                /\ UNCHANGED <<queue, submitted, ingested>>
         ELSE IF wpc = "exited"
           THEN /\ imp' = [imp EXCEPT !.groups = rest]
                /\ UNCHANGED <<queue, submitted, ingested>>
         ELSE /\ Send(queue, item).ready
              /\ queue' = Send(queue, item).queue
              /\ submitted' = Append(submitted, item)
              /\ imp' = [imp EXCEPT !.groups = rest,
                                    !.sent = Append(@, item)]
              /\ ingested' =
                   ingested \o [i \in 1 .. Len(p.records) |->
                                  [name |-> imp.name, bar |-> p.records[i]]]
  /\ UNCHANGED <<nimports, txAlive, wpc, lastItem, received, q>>
  /\ UNCHANGED <<regVars, indexVars, blockVars>>

\* Line 101: Ok(()).
ImportReturn ==
  /\ imp.pc = "send"
  /\ DOMAIN imp.groups = {}
  /\ imp' = [imp EXCEPT !.pc = "returned", !.result = "Ok"]
  /\ UNCHANGED <<nimports, queue, txAlive, wpc, lastItem, submitted,
                 received, ingested, q>>
  /\ UNCHANGED <<regVars, indexVars, blockVars>>

\* compress_worker, one turn of the loop: receive an item, build its block,
\* and let the block go (nothing is stored).  The model follows the worker
\* through MaxReceives turns, as many as the imports of Spec can ask for.
WorkerRecv ==
  /\ wpc = "running"
  /\ Len(received) < MaxReceives
  /\ queue # << >>
  /\ LET item == Head(queue)
         block == NewBlock(item.date, item.symbol_id, item.records,
                           Len(heap) + 1)
     IN  /\ lastItem' = Some(item)
         /\ received' = Append(received, item)
  /\ queue' = Tail(queue)
  /\ UNCHANGED <<imp, nimports, txAlive, wpc, submitted, ingested, q>>
  /\ UNCHANGED <<regVars, indexVars, blockVars>>

\* compress_worker: recv() fails once the channel is empty and every
\* Sender is dropped; the loop ends.
WorkerExit ==
  /\ wpc = "running"
  /\ queue = << >>
  /\ ~txAlive
  /\ wpc' = "exited"
  /\ UNCHANGED <<imp, nimports, queue, txAlive, lastItem, submitted,
                 received, ingested, q>>
  /\ UNCHANGED <<regVars, indexVars, blockVars>>

\* The FxStore is dropped (it has no Drop impl and no shutdown): its
\* fields go, compress_tx with them; the JoinHandle is dropped unjoined.
\* No call borrows the store at that moment and none can follow.
DropStore ==
  /\ txAlive
  /\ imp.pc # "send"
  /\ txAlive' = FALSE
  /\ UNCHANGED <<imp, nimports, queue, wpc, lastItem, submitted, received,
                 ingested, q>>
  /\ UNCHANGED <<regVars, indexVars, blockVars>>

\* A lookup that registers the name it does not find, as
\* get_or_create_symbol does.
LookupCreating(syms, name) == GetOrCreateSymbol(syms, name).symbols

\* Line 111: the registry after self.symbols.get(symbol), a lookup that
\* creates nothing.
LookupSymbol(syms, name) == syms

\* An iterator that decompresses every block it holds when it is made.
NewIteratorEager(name, start_ts, end_ts, snap) ==
  [name |-> name, start_ts |-> start_ts, end_ts |-> end_ts,
   snapshot |-> snap, pos |-> 1, read |-> snap, out |-> << >>,
   panic |-> FALSE, seen |-> Len(ingested),
   quiescent |-> queue = << >> /\ imp.pc # "send"]

\* Lines 131-136: the iterator query_range returns, a flat_map over the
\* vector of cloned blocks whose closure has not run yet.  pos is the place
\* of the flat_map in the vector, read the blocks decompress() has been
\* called on, out the bars yielded.  quiescent and seen record, for the
\* properties, whether the compressor had consumed everything sent and how
\* many bars had been sent by then.
NewIterator(name, start_ts, end_ts, snap) ==
  [name |-> name, start_ts |-> start_ts, end_ts |-> end_ts,
   snapshot |-> snap, pos |-> 1, read |-> << >>, out |-> << >>,
   panic |-> FALSE, seen |-> Len(ingested),
   quiescent |-> queue = << >> /\ imp.pc # "send"]

\* query_range: the iterator is made; nothing is decompressed yet.
QueryRange(name, start_ts, end_ts) ==
  /\ txAlive
  /\ symbols' = LookupSymbol(symbols, name)
  /\ \E snap \in Snapshots(symbols, blocks, name, start_ts, end_ts) :
       q' = Some(NewIterator(name, start_ts, end_ts, snap))
  /\ UNCHANGED <<ipc, iname, iid, returned>>
  /\ UNCHANGED <<pipeVars, indexVars, blockVars>>

\* An iterator that goes back to the index for the block of the key.
IterBlockLive(it, index) ==
  LET b == it.snapshot[it.pos]
  IN  IF b.symbol_id \in DOMAIN index /\ b.date \in DOMAIN index[b.symbol_id]
        THEN index[b.symbol_id][b.date]
        ELSE b

\* Lines 128-131: the block the flat_map takes next, out of the vector of
\* clones that query_range collected; the index is not consulted again.
IterBlock(it, index) == it.snapshot[it.pos]

\* The consumer pulls on: flat_map takes the next block of the vector,
\* decompresses it (a failure panics in the consumer's thread) and yields
\* the bars in range.
IterNext ==
  /\ txAlive
  /\ q # None
  /\ ~Unwrap(q).panic
  /\ Unwrap(q).pos <= Len(Unwrap(q).snapshot)
  /\ LET it == Unwrap(q)
         b == IterBlock(it, blocks)
         r == DecompressBlock(b, heap)
     IN  /\ heap' = r.heap
         /\ writes' = CountWrite(writes, b, r)
         /\ q' = IF r.panic
                    THEN Some([it EXCEPT !.panic = TRUE,
                                         !.read = Append(@, b)])
                  ELSE Some([it EXCEPT
                               !.pos = @ + 1,
                               !.read = Append(@, b),
                               !.out = @ \o FilterBlock(Unwrap(r.data),
                                                        it.start_ts,
                                                        it.end_ts)])
  /\ UNCHANGED <<regVars, pipeVars, blocks, blockVars>>

Windows == {<<0, TsAt(2, 0)>>, <<TsAt(0, 1), TsAt(0, 1)>>}

QueryNames == {EURUSD, XAUUSD}

QueryAny ==
  \E n \in QueryNames : \E w \in Windows : QueryRange(n, w[1], w[2])

\* With nothing ever stored in the index, every iterator of this
\* specification is empty: IterNext has no block to take.
Next ==
  \/ \E n \in IngestNames : \E f \in Files : ImportStart(n, f)
  \/ \E d \in DOMAIN imp.groups : ImportSend(d)
  \/ ImportReturn
  \/ WorkerRecv
  \/ WorkerExit
  \/ DropStore
  \/ QueryAny

Spec == Init /\ [][Next]_vars

(***************************************************************************)
(* Properties of the pipeline.                                             *)
(***************************************************************************)
Exhausted(it) == ~it.panic /\ it.pos > Len(it.snapshot)

Count(seq, x) == Cardinality({i \in 1 .. Len(seq) : seq[i] = x})

MinuteOf(ts) == ts \div (SecsPerMin * TicksPerSec)

\* Among the first n bars sent, bar i is the last one of its symbol and
\* minute.
LastForMinute(i, n) ==
  \A j \in (i + 1) .. n :
    ~ (/\ ingested[j].name = ingested[i].name
       /\ MinuteOf(ingested[j].bar.ts) = MinuteOf(ingested[i].bar.ts))

\* C1: a query made once the compressor has consumed every item sent
\* yields, exactly once, each bar sent for its symbol whose ts lies in
\* [start_ts, end_ts] (the last bar sent for its minute).
C1_Completeness ==
  (q # None /\ Unwrap(q).quiescent /\ Exhausted(Unwrap(q))) =>
    \A i \in 1 .. Unwrap(q).seen :
      (/\ ingested[i].name = Unwrap(q).name
       /\ LastForMinute(i, Unwrap(q).seen)
       /\ InRange(ingested[i].bar, Unwrap(q).start_ts, Unwrap(q).end_ts))
        => Count(Unwrap(q).out, ingested[i].bar) = 1

\* C2: once the worker has received an item, the index holds, under the
\* item's (symbol_id, day), the block built from the item received last
\* for that key.
C2_Installed ==
  lastItem # None =>
    LET item == Unwrap(lastItem)
    IN  /\ item.symbol_id \in DOMAIN blocks
        /\ item.date \in DOMAIN blocks[item.symbol_id]
        /\ blocks[item.symbol_id][item.date].data
             = NewBlock(item.date, item.symbol_id, item.records, 0).data

\* A line with nothing wrong: long enough, a numeric day key, six fields, a
\* datetime that names a minute, prices that parse.
WellFormed(line) ==
  /\ line.len >= 8
  /\ line.key # None
  /\ line.nparts >= 6
  /\ line.px # None
  /\ line.dt # None
  /\ ParseDateTime(Unwrap(line.dt).ymd, Unwrap(line.dt).hms) # None

\* The items a feed's well-formed lines make: per day key, their bars in
\* feed order.
ExpectedItems(lines, sym_id) ==
  LET good == SelectSeq(lines, WellFormed)
      days == {Unwrap(good[i].key) : i \in 1 .. Len(good)}
      of(d) == SelectSeq(good, LAMBDA l : Unwrap(l.key) = d)
  IN  {[date |-> d, symbol_id |-> sym_id,
        records |-> [i \in 1 .. Len(of(d)) |->
                       Unwrap(parse_line(of(d)[i], sym_id).bar)]] :
         d \in days}

\* C8: an import of a file that opens ends with Ok, without a panic, having
\* sent the well-formed bars of every day, whatever malformed lines the
\* feed holds.
C8_LineRecovery ==
  (imp.pc \in {"returned", "panicked"} /\ imp.opened) =>
    /\ imp.pc = "returned"
    /\ imp.result = "Ok"
    /\ {imp.sent[i] : i \in 1 .. Len(imp.sent)}
         = ExpectedItems(imp.lines, imp.sym_id)

\* The lifecycle state: Running while the store (and the Sender) lives,
\* Draining once it is gone and the worker still runs, Stopped after.
Lifecycle ==
  IF txAlive THEN "Running"
  ELSE IF wpc = "running" THEN "Draining" ELSE "Stopped"

\* C9: queries can be made and answered in Running and in Draining.  (Its
\* other half, an ingest made after the queue closed is answered with an
\* error, has no state to be checked in: no call can be made by then.)
C9_QueryWhileDraining ==
  Lifecycle \in {"Running", "Draining"} => ENABLED QueryAny

(***************************************************************************)
(* SpecQuery: query_range over an index that holds blocks.  The source     *)
(* never stores a block (compress_worker drops it), so the index is filled *)
(* here by the install operation of the design, section 4.5: an atomic     *)
(* replace under (symbol_id, day) of a block built by CompressedBlock::new.*)
(***************************************************************************)
\* The work items installed: a day's bars, under the day they belong to.
InstallItems(sym) ==
  {[date |-> 19700101, symbol_id |-> sym,
    records |-> <<MkBar(TsAt(0, 1), 1, sym)>>],
   [date |-> 19700101, symbol_id |-> sym,
    records |-> <<MkBar(TsAt(0, 1), 2, sym), MkBar(TsAt(0, 1439), 1, sym)>>],
   [date |-> 19700102, symbol_id |-> sym,
    records |-> <<MkBar(TsAt(1, 0), 3, sym)>>]}

\* A caller interns a name (no other interner is active).
Intern(name) ==
  /\ txAlive
  /\ name \notin DOMAIN symbols
  /\ symbols' = GetOrCreateSymbol(symbols, name).symbols
  /\ UNCHANGED <<ipc, iname, iid, returned, q>>
  /\ UNCHANGED <<pipeVars, indexVars, blockVars>>

\* install(symbol_id, day, block): the block built from the item replaces
\* any block under the key.
Install(item) ==
  /\ txAlive
  /\ Len(heap) < MaxInstalls
  /\ \E n \in DOMAIN symbols : symbols[n].id = item.symbol_id
  /\ LET block == NewBlock(item.date, item.symbol_id, item.records,
                           Len(heap) + 1)
         inner == IF item.symbol_id \in DOMAIN blocks
                    THEN blocks[item.symbol_id] ELSE EmptyMap
     IN  blocks' = MapInsert(blocks, item.symbol_id,
                             MapInsert(inner, item.date, block))
  /\ heap' = Append(heap, None)
  /\ writes' = Append(writes, 0)
  /\ UNCHANGED <<regVars, pipeVars, blockVars, q>>

NextQuery ==
  \/ \E n \in QueryNames : Intern(n)
  \/ \E sym \in 0 .. 1 : \E item \in InstallItems(sym) : Install(item)
  \/ QueryAny
  \/ IterNext

SpecQuery == Init /\ [][NextQuery]_vars

\* The slots of a block: the array that new() serialized into its payload.
SlotsOf(b) == b.data.content.items

\* C6: the iterator takes the blocks in ascending day order and the bars it
\* yields are in nondecreasing ts order.
C6_Monotonic ==
  q # None =>
    LET it == Unwrap(q)
    IN  /\ \A i, j \in 1 .. Len(it.snapshot) :
             i < j => it.snapshot[i].date < it.snapshot[j].date
        /\ \A i, j \in 1 .. Len(it.out) :
             i < j => it.out[i].ts <= it.out[j].ts

\* C7: no bar yielded has ts = 0, and the iterator's filter selects no
\* zeroed slot of a block it holds, whatever start_ts and end_ts are.
C7_NoEmptySlot ==
  q # None =>
    LET it == Unwrap(q)
    IN  /\ \A i \in 1 .. Len(it.out) : it.out[i].ts # 0
        /\ \A k \in 1 .. Len(it.snapshot) :
             \A m \in 1 .. Len(SlotsOf(it.snapshot[k])) :
               SlotsOf(it.snapshot[k])[m] = ZeroBar
                 => ~InRange(SlotsOf(it.snapshot[k])[m], it.start_ts,
                             it.end_ts)

\* C10: a block that fails to decompress does not panic the thread that
\* consumes the iterator.
C10_NoPanic == q # None => ~Unwrap(q).panic

\* The blocks an iterator holds are intact: each names a cache cell of the
\* heap, and a populated cell holds the array of the block's own payload.
HeldBlocksValid(it) ==
  \A k \in 1 .. Len(it.snapshot) :
    LET b == it.snapshot[k]
    IN  /\ b.cached \in 1 .. Len(heap)
        /\ heap[b.cached] # None
             => Unwrap(heap[b.cached]) = CopySlots(SlotsOf(b))

\* C11: the blocks an iterator reads are the ones query_range collected,
\* whatever is installed or replaced in the index afterwards, and the blocks
\* it holds stay intact.
C11_SnapshotIsolation ==
  q # None =>
    LET it == Unwrap(q)
    IN  /\ it.read = SubSeq(it.snapshot, 1, Len(it.read))
        /\ HeldBlocksValid(it)

\* An iterator has read a block that was replaced in the index after the
\* query was made.
C11_Witness ==
  /\ q # None
  /\ Unwrap(q).read # << >>
  /\ LET b == Unwrap(q).read[1]
     IN  /\ b = Unwrap(q).snapshot[1]
         /\ blocks[b.symbol_id][b.date] # b

\* C12: a query on a name that was never interned yields the empty
\* sequence without a panic, and no query_range call changes the symbol
\* registry or the block index.
C12_UnknownSymbol ==
  /\ [](q # None /\ Unwrap(q).name \notin DOMAIN symbols
          => /\ Unwrap(q).snapshot = << >>
             /\ Unwrap(q).out = << >>
             /\ ~Unwrap(q).panic)
  /\ [][q' # q => symbols' = symbols /\ blocks' = blocks]_vars

\* A query was made on a name the registry, which holds another name, does
\* not know.
C12_Witness ==
  /\ q # None
  /\ Unwrap(q).name \notin DOMAIN symbols
  /\ symbols # EmptyMap

\* The bar of a well-formed line.
BarOf(line, sym_id) == Unwrap(parse_line(line, sym_id).bar)

\* Line j is the last line of the feed with its datetime, and an earlier
\* well-formed line has the same datetime.
LastDuplicate(lines, j) ==
  /\ WellFormed(lines[j])
  /\ \E i \in 1 .. j - 1 : WellFormed(lines[i]) /\ lines[i].dt = lines[j].dt
  /\ \A k \in j + 1 .. Len(lines) : lines[k].dt # lines[j].dt

\* The bars of the well-formed lines of day key d, in feed order.
DayBars(lines, d, sym_id) ==
  LET of == SelectSeq(lines, LAMBDA l : WellFormed(l) /\ Unwrap(l.key) = d)
  IN  [i \in 1 .. Len(of) |-> BarOf(of[i], sym_id)]

\* C13: the records of an item are the day's bars in feed order, the block
\* built from an item holds in each minute's slot the last record of that
\* minute, and a query made after an import with several lines of one
\* datetime yields, for that minute, exactly the bar of the last such line.
C13_LastWriterWins ==
  /\ \A i \in 1 .. Len(imp.sent) :
       imp.sent[i].records
         = DayBars(imp.lines, imp.sent[i].date, imp.sym_id)
  /\ lastItem # None =>
       LET item == Unwrap(lastItem)
           slots == SlotsOf(NewBlock(item.date, item.symbol_id, item.records,
                                     0))
       IN  \A i \in 1 .. Len(item.records) :
             slots[MinuteOfDay(item.records[i].ts) + 1]
               = LastAtMinute(item.records, MinuteOfDay(item.records[i].ts))
  /\ (/\ q # None
      /\ Unwrap(q).quiescent
      /\ Exhausted(Unwrap(q))
      /\ Unwrap(q).seen = Len(ingested)
      /\ imp.pc = "returned"
      /\ imp.result = "Ok"
      /\ imp.name = Unwrap(q).name)
       => \A j \in 1 .. Len(imp.lines) :
            (/\ LastDuplicate(imp.lines, j)
             /\ InRange(BarOf(imp.lines[j], imp.sym_id), Unwrap(q).start_ts,
                        Unwrap(q).end_ts))
              => SelectSeq(Unwrap(q).out,
                           LAMBDA b : MinuteOf(b.ts)
                                        = MinuteOf(BarOf(imp.lines[j],
                                                         imp.sym_id).ts))
                   = <<BarOf(imp.lines[j], imp.sym_id)>>

(***************************************************************************)
(* SpecQueue: the channel at its capacity.  The store starts after an      *)
(* import of a feed of n days, one line a day, has returned while the      *)
(* worker has not run yet: the channel holds the n items, n being the      *)
(* capacity or a little less.  A further import then meets the full        *)
(* channel.                                                                *)
(***************************************************************************)
LongFeed(n) == [i \in 1 .. n |-> GoodLine(CivilFromDays(i - 1), 0, 1)]

LongFeedItems(n) ==
  [i \in 1 .. n |->
     [date |-> CivilFromDays(i - 1), symbol_id |-> 0,
      records |-> <<BarOf(LongFeed(n)[i], 0)>>]]

QueueFiles ==
  {Some(<<HeaderLine, GoodLine(19700101, 100, 2)>>),
   Some(<<HeaderLine, GoodLine(19700101, 100, 2),
          GoodLine(19700102, 0, 3)>>),
   Some(<<HeaderLine, BadPriceLine, GoodLine(19700102, 0, 3)>>)}

InitQueue ==
  /\ \E n \in QUEUE_CAPACITY - 2 .. QUEUE_CAPACITY :
       /\ queue = LongFeedItems(n)
       /\ submitted = LongFeedItems(n)
       /\ ingested = [i \in 1 .. n |->
                        [name |-> EURUSD,
                         bar |-> LongFeedItems(n)[i].records[1]]]
       /\ imp = [IdleImport EXCEPT !.pc = "returned", !.result = "Ok",
                                   !.name = EURUSD, !.opened = TRUE,
                                   !.lines = LongFeed(n),
                                   !.sent = LongFeedItems(n)]
  /\ symbols = GetOrCreateSymbol(EmptyMap, EURUSD).symbols
  /\ ipc = [t \in Threads |-> "idle"]
  /\ iname = [t \in Threads |-> << >>]
  /\ iid = [t \in Threads |-> 0]
  /\ returned = {}
  /\ nimports = 1
  /\ txAlive = TRUE
  /\ wpc = "running"
  /\ lastItem = None
  /\ received = << >>
  /\ blocks = EmptyMap
  /\ heap = << >>
  /\ writes = << >>
  /\ q = None
  /\ binput = NoInput
  /\ blk = None
  /\ bres = None
  /\ IdleChecks

NextQueue ==
  \/ \E f \in QueueFiles : ImportStart(EURUSD, f)
  \/ \E d \in DOMAIN imp.groups : ImportSend(d)
  \/ ImportReturn
  \/ WorkerRecv

SpecQueue == InitQueue /\ [][NextQueue]_vars

\* C14: the channel never holds more than its capacity, and while the store
\* lives every item sent is in the channel or has been received, in the
\* order sent: a send on a full channel waits, nothing is dropped.
C14_Backpressure ==
  /\ Len(queue) <= QUEUE_CAPACITY
  /\ txAlive => submitted = received \o queue

\* More items than the capacity have been sent and the channel is full: a
\* producer that met the full channel has enqueued after the worker took an
\* item.
C14_Witness ==
  /\ Len(submitted) > QUEUE_CAPACITY
  /\ Len(queue) = QUEUE_CAPACITY
  /\ received # << >>

\* C15: get_or_create_symbol returns an id for every name, without a
\* panic: no interning thread ends in one.
C15_InternNeverFails == \A t \in Threads : ipc[t] # "panicked"

(***************************************************************************)
(* SpecCache: threads calling decompress() on one block (the block and its *)
(* clones share the cache cell).  The read of the cache under the read     *)
(* guard and the write under the write guard are separate steps; the       *)
(* decoding between them touches nothing shared.                           *)
(***************************************************************************)
\* Lines 41-43: the cache is read under the read guard; a cached array is
\* returned, else the thread goes on to decode.
DecCheck(t) ==
  /\ blk # None
  /\ dpc[t] = "idle"
  /\ Len(dout[t]) < MaxCalls
  /\ IF heap[Unwrap(blk).cached] # None
       THEN /\ dout' = [dout EXCEPT ![t] = Append(@, heap[Unwrap(blk).cached])]
            /\ UNCHANGED dpc
       ELSE /\ dpc' = [dpc EXCEPT ![t] = "decode"]
            /\ UNCHANGED dout
  /\ UNCHANGED <<binput, blk, bres, filterVars, q>>
  /\ UNCHANGED <<regVars, pipeVars, indexVars>>

\* Lines 46-57: decode (a failed unwrap() panics), then write the array
\* into the cache under the write guard, whatever the cache holds by now,
\* and return it.
DecFinish(t) ==
  /\ blk # None
  /\ dpc[t] = "decode"
  /\ LET b == Unwrap(blk)
         r == DecodeBlock(b)
     IN  IF r.panic
           THEN /\ dpc' = [dpc EXCEPT ![t] = "panicked"]
                /\ UNCHANGED <<dout, heap, writes>>
           ELSE /\ heap' = [heap EXCEPT ![b.cached] = r.data]
                /\ writes' = [writes EXCEPT ![b.cached] = @ + 1]
                /\ dout' = [dout EXCEPT ![t] = Append(@, r.data)]
                /\ dpc' = [dpc EXCEPT ![t] = "idle"]
  /\ UNCHANGED <<binput, blk, bres, filterVars, q, blocks>>
  /\ UNCHANGED <<regVars, pipeVars>>

NextCache ==
  \/ BlockNew
  \/ \E t \in Threads : DecCheck(t)
  \/ \E t \in Threads : DecFinish(t)

SpecCache == InitBlock /\ [][NextCache]_vars

\* The threads that found the cache empty and have left decompress().
Missed == {t \in Threads : dpc[t] = "panicked" \/ dout[t] # << >>}

\* C16: when the threads that called decompress() on the block have all
\* left it, the cache has been written exactly once, and never more.
C16_WrittenOnce ==
  blk # None =>
    /\ writes[Unwrap(blk).cached] <= 1
    /\ (Missed # {} /\ \A t \in Threads : dpc[t] # "decode")
         => writes[Unwrap(blk).cached] = 1

\* The arrays decompress() has returned to the threads.
Returned == UNION {{dout[t][i] : i \in 1 .. Len(dout[t])} : t \in Threads}

\* C18: a cache once populated keeps its array, a block made by new()
\* starts with an empty cache, and every decompress() call on a block
\* returns, all calls returning the same array.
C18_CacheLifecycle ==
  /\ [][\A c \in 1 .. Len(heap) : heap[c] # None => heap'[c] = heap[c]]_vars
  /\ [][\A c \in 1 .. Len(heap') : c > Len(heap) => heap'[c] = None]_vars
  /\ [](\A t \in Threads : dpc[t] # "panicked")
  /\ [](Cardinality(Returned) <= 1)

\* C17: decompress() has been called on the blocks the consumer's pulls
\* have brought the iterator to, and on no other: on none when the iterator
\* is made, on none after the block it is reading.
C17_LazyDecompression ==
  q # None =>
    LET it == Unwrap(q)
    IN  Len(it.read) = IF it.panic THEN it.pos ELSE it.pos - 1

\* An iterator over two blocks has been pulled into its first block; the
\* second has not been decompressed.
C17_Witness ==
  /\ q # None
  /\ Len(Unwrap(q).snapshot) = 2
  /\ Len(Unwrap(q).read) = 1
  /\ heap[Unwrap(q).snapshot[2].cached] = None

\* C19: the worker has exited only if the channel is closed and it has
\* received, in the order sent and once each, every item sent; and the
\* teardown of the store waits for the worker, so that once the store is
\* gone the worker has exited.
C19_WorkerTermination ==
  /\ wpc = "exited" => ~txAlive /\ received = submitted
  /\ ~txAlive => wpc = "exited"

(***************************************************************************)
(* query.rs: SimdFilter::filter_by_price.  Prices are u32 in the code; the *)
(* model's prices stay below 2^31, where the cast `as i32` of lines 16-29  *)
(* keeps the value.                                                        *)
(***************************************************************************)
AsI32(x) == x

\* Lines 21-44: lane i of the vector holds chunk[i]'s close (the last
\* argument of _mm256_set_epi32 is lane 0) and bit i of the mask is lane i's
\* verdict, so the bars pushed are, in order, those whose lane passes both
\* comparisons.  Both are _mm256_cmpgt_epi32: signed, and strict.
SimdSelected(chunk, min_price, max_price) ==
  SelectSeq(chunk, LAMBDA rec : /\ AsI32(rec.close) > AsI32(min_price)
                                /\ AsI32(max_price) > AsI32(rec.close))

\* Lines 48-52: the scalar pass over the remainder.
ScalarSelected(rest, min_price, max_price) ==
  SelectSeq(rest, LAMBDA rec : rec.close >= min_price
                                 /\ rec.close <= max_price)

\* Lines 19-45: the chunks of eight, from chunk c on.
RECURSIVE SimdChunks(_, _, _, _)
SimdChunks(records, c, min_price, max_price) ==
  IF c * LANES > Len(records) THEN << >>
  ELSE SimdSelected(SubSeq(records, (c - 1) * LANES + 1, c * LANES),
                    min_price, max_price)
         \o SimdChunks(records, c + 1, min_price, max_price)

\* filter_by_price: chunks_exact(8), then the remainder.
filter_by_price(records, min_price, max_price) ==
  LET full == (Len(records) \div LANES) * LANES
  IN  SimdChunks(records, 1, min_price, max_price)
        \o ScalarSelected(SubSeq(records, full + 1, Len(records)),
                          min_price, max_price)

\* Inputs: bars a minute apart whose closes are 1 or 2, and bounds from 0
\* to MaxPrice.
FilterRecords ==
  UNION {{[i \in 1 .. n |-> MkBar(TsAt(0, i), c[i], 0)] :
            c \in [1 .. n -> {1, 2}]} : n \in 0 .. MaxFilterLen}

InitFilter ==
  /\ InitStore
  /\ binput = NoInput
  /\ blk = None
  /\ bres = None
  /\ dpc = [t \in Threads |-> "idle"]
  /\ dout = [t \in Threads |-> << >>]
  /\ finput \in [records : FilterRecords, min_price : 0 .. MaxPrice,
                  max_price : 0 .. MaxPrice]
  /\ fres = None

FilterByPrice ==
  /\ fres = None
  /\ fres' = Some(filter_by_price(finput.records, finput.min_price,
                                  finput.max_price))
  /\ UNCHANGED <<binput, blk, bres, cacheVars, finput, q>>
  /\ UNCHANGED <<regVars, pipeVars, indexVars>>

NextFilter == FilterByPrice

SpecFilter == InitFilter /\ [][NextFilter]_vars

\* C20: filter_by_price returns, in input order, exactly the bars whose
\* close lies in [min_price, max_price], bounds included, whatever the
\* length of the input.
C20_PriceFilter ==
  fres # None =>
    Unwrap(fres) = SelectSeq(finput.records,
                             LAMBDA b : /\ finput.min_price <= b.close
                                        /\ b.close <= finput.max_price)

\* C21: every bar sent to the compressor lies in an item whose day key is
\* the UTC calendar day of the bar's ts, as ts_to_date computes it.
C21_DayBucketing ==
  \A i \in 1 .. Len(submitted) :
    \A k \in 1 .. Len(submitted[i].records) :
      ts_to_date(submitted[i].records[k].ts) = submitted[i].date

\* The minute-of-day of the claim: ((ts / 1e9) mod 86400) / 60.
SlotMinute(ts) == ((ts \div TicksPerSec) % SecsPerDay) \div SecsPerMin

\* Slot i of the array is the zeroed bar or an input record of minute i.
SlotsPlaced(slots, records) ==
  \A i \in 0 .. BLOCK_SIZE - 1 :
    \/ slots[i + 1] = ZeroBar
    \/ \E k \in 1 .. Len(records) :
         records[k] = slots[i + 1] /\ SlotMinute(records[k].ts) = i

\* No two slots other than the zeroed bar share a minute index.
SlotsUnique(slots) ==
  LET nonzero == {i \in 1 .. Len(slots) : slots[i] # ZeroBar}
  IN  \A i, j \in nonzero :
        i # j => SlotMinute(slots[i].ts) # SlotMinute(slots[j].ts)

\* C22, as claimed: each slot of the block new() built is the zeroed bar or
\* an input record of the slot's minute, no two non-zero slots share a
\* minute index, and the minute of every input record with ts # 0 has a
\* non-zero slot.
C22_SlotPlacementClaimed ==
  blk # None =>
    LET slots == SlotsOf(Unwrap(blk))
    IN  /\ SlotsPlaced(slots, binput.records)
        /\ SlotsUnique(slots)
        /\ \A k \in 1 .. Len(binput.records) :
             binput.records[k].ts # 0
               => slots[SlotMinute(binput.records[k].ts) + 1] # ZeroBar

\* C22, amended: as claimed, except that the minute of an input record with
\* ts # 0 has a non-zero slot unless the last input record of that minute
\* is itself the zeroed bar.
C22_SlotPlacement ==
  blk # None =>
    LET slots == SlotsOf(Unwrap(blk))
        lastOf(m) ==
          LET idx == {j \in 1 .. Len(binput.records) :
                        SlotMinute(binput.records[j].ts) = m}
          IN  binput.records[CHOOSE j \in idx : \A l \in idx : l <= j]
    IN  /\ SlotsPlaced(slots, binput.records)
        /\ SlotsUnique(slots)
        /\ \A k \in 1 .. Len(binput.records) :
             (/\ binput.records[k].ts # 0
              /\ lastOf(SlotMinute(binput.records[k].ts)) # ZeroBar)
               => slots[SlotMinute(binput.records[k].ts) + 1] # ZeroBar

\* new() was given two different records of one minute, neither at ts 0,
\* and the minute's slot holds the later one.
C22_Witness ==
  /\ blk # None
  /\ Len(binput.records) = 2
  /\ binput.records[1] # binput.records[2]
  /\ binput.records[1].ts # 0
  /\ binput.records[2].ts # 0
  /\ SlotMinute(binput.records[1].ts) = SlotMinute(binput.records[2].ts)
  /\ SlotsOf(Unwrap(blk))[SlotMinute(binput.records[2].ts) + 1]
       = binput.records[2]

=============================================================================
